---- MODULE Spec2Model ----
(***************************************************************************)
(* Model of app.py, the FIRE / retirement planner: the year-by-year        *)
(* projection project() and the goal-seek around it.                       *)
(*                                                                         *)
(* Numbers.  The program computes in binary64.  Here an amount of money is *)
(* a natural number of currency units and a rate is a natural number of    *)
(* basis points (RateScale = 1.0); every product and quotient is rounded   *)
(* down to the unit, and an amount larger than MaxMoney saturates at       *)
(* MaxMoney (binary64 likewise rounds every operation and saturates, at    *)
(* inf).  Rounding down and saturating are both monotone, as the rounding  *)
(* of binary64 is.                                                         *)
(***************************************************************************)
EXTENDS Integers, Sequences, FiniteSets

\* ------------------------------------------------------------- constants

\* range(today_year, today_year + 80): the number of simulated years.
Horizon == 80

\* first_yes = None
None == -1

\* 1.0 as a rate: rates are in basis points.
RateScale == 10000

\* The largest amount the model represents; larger amounts saturate.
MaxMoney == 1000000000

\* Widget edits (script reruns with one changed input) the model follows.
MaxEdits == 2

\* ------------------------------------------------------------ arithmetic

Sat(x) == IF x > MaxMoney THEN MaxMoney ELSE x

\* v * r for an amount v and a rate r, rounded down.
MulRate(v, r) ==
    Sat((v \div RateScale) * r + ((v % RateScale) * r) \div RateScale)

\* a + b on amounts.
Add(a, b) == Sat(a + b)

\* base ** n as a rate, by repeated squaring.
RECURSIVE Pow(_, _)
Pow(base, n) ==
    IF n = 0 THEN RateScale
    ELSE LET h  == Pow(base, n \div 2)
             sq == MulRate(h, h)
         IN  IF h >= MaxMoney THEN MaxMoney
             ELSE IF n % 2 = 0 THEN sq ELSE MulRate(sq, base)

\* v / d for an amount v and a rate d >= 1.0, rounded down.
DivRate(v, d) == (v \div d) * RateScale + ((v % d) * RateScale) \div d

\* ---------------------------------------------------------------- inputs

\* The widgets' default values (rates in basis points).
Defaults ==
    [ today_year  |-> 2025,
      curr_age    |-> 24,
      curr_sal    |-> 45000,
      sal_growth  |-> 300,
      save_rate   |-> 2500,
      curr_portf  |-> 7000,
      pre_ret     |-> 600,
      post_ret    |-> 500,
      infl        |-> 200,
      swr         |-> 400,
      tax         |-> 2000,
      pension     |-> 7000,
      desire_sp   |-> 10000,
      nest_target |-> 5000000,
      age_target  |-> 35,
      goal_var    |-> "Savings rate" ]

\* The values the model lets the user give each widget, all within the
\* widget's range.
Choices ==
    [ today_year  |-> {2025},
      curr_age    |-> {24},
      curr_sal    |-> {45000},
      sal_growth  |-> {300},
      save_rate   |-> {2500},
      curr_portf  |-> {7000, 400000},
      pre_ret     |-> {600},
      post_ret    |-> {500, 3000},
      infl        |-> {200},
      swr         |-> {400},
      tax         |-> {2000},
      pension     |-> {7000},
      desire_sp   |-> {10000, 10000000},
      nest_target |-> {5000000, 1000000000, 100000},
      age_target  |-> {35, 25, 99},
      goal_var    |-> {"Savings rate", "Salary growth", "Pre-ret return"} ]

\* number_input("Target retirement age", curr_age + 1, 99, 35)
ValidInputs(p) == p.curr_age + 1 <= p.age_target /\ p.age_target <= 99

\* ------------------------------------------------------------- project()

\* np.zeros_like(arr, dtype=float)
zeros_like(arr) == [j \in DOMAIN arr |-> 0]

\* len(arr) of an array indexed from 0
len(arr) == Cardinality(DOMAIN arr)

\* Mutant of arange: the last element is dropped (an off-by-one range).
arangeShort(a, b) == [j \in 0 .. (b - a - 2) |-> a + j]

\* np.arange(a, b)
arange(a, b) == [j \in 0 .. (b - a - 1) |-> a + j]

\* salary[i] = salary[i-1]*(1 + sal_growth_) for i in range(a, b), run as
\* the passes below the middle of the range and then the passes from it.
RECURSIVE GrowSalary(_, _, _, _)
GrowSalary(salary, a, b, sal_growth_) ==
    IF a >= b THEN salary
    ELSE IF b = a + 1
    THEN [salary EXCEPT ![a] = MulRate(salary[a - 1], RateScale + sal_growth_)]
    ELSE LET m   == (a + b) \div 2
             mid == GrowSalary(salary, a, m, sal_growth_)
         IN  IF m >= len(mid) THEN mid ELSE GrowSalary(mid, m, b, sal_growth_)

\* Mutant of SavingsOf: the share of the salary that is spent is saved.
SavingsOfRest(salary, save_rate_) ==
    [j \in DOMAIN salary |-> MulRate(salary[j], RateScale - save_rate_)]

\* savings = salary * save_rate_
SavingsOf(salary, save_rate_) ==
    [j \in DOMAIN salary |-> MulRate(salary[j], save_rate_)]

\* The locals of project() when its main loop starts.
ProjectStart(p, save_rate_, sal_growth_, pre_ret_) ==
    LET years  == arange(p.today_year, p.today_year + Horizon)
        age    == [j \in DOMAIN years |-> p.curr_age + years[j] - p.today_year]
        salary == GrowSalary([zeros_like(years) EXCEPT ![0] = p.curr_sal],
                             1, len(years), sal_growth_)
    IN  [ years      |-> years,
          age        |-> age,
          salary     |-> salary,
          savings    |-> SavingsOf(salary, save_rate_),
          portf      |-> [zeros_like(years) EXCEPT ![0] = p.curr_portf],
          retired    |-> FALSE,
          first_yes  |-> None,
          real_portf |-> zeros_like(years),
          real_wd    |-> zeros_like(years),
          can_retire |-> [j \in DOMAIN years |-> ""],
          pre_ret_   |-> pre_ret_ ]

\* real_pen = pension if age[i] >= 65 else 0
RealPen(p, a) == IF a >= 65 THEN p.pension ELSE 0

\* Mutant of GrowthRate: the return never switches at retirement.
GrowthRateNoSwitch(p, l) == l.pre_ret_

\* growth_rate = pre_ret_ if not retired else post_ret
GrowthRate(p, l) == IF ~l.retired THEN l.pre_ret_ ELSE p.post_ret

\* Mutant of PortfAt: the desired spending is deducted every year.
PortfAtLessSpending(p, l, i) ==
    IF i > 0
    THEN LET v == Add(Add(l.portf[i - 1], l.savings[i]),
                      MulRate(l.portf[i - 1], IF ~l.retired THEN l.pre_ret_ ELSE p.post_ret))
         IN  IF v >= p.desire_sp THEN v - p.desire_sp ELSE 0
    ELSE l.portf[i]

\* The row's portfolio value: carried over for row 0, grown otherwise.
PortfAt(p, l, i) ==
    IF i > 0
    THEN Add(Add(l.portf[i - 1], l.savings[i]),
             MulRate(l.portf[i - 1], GrowthRate(p, l)))
    ELSE l.portf[i]

\* (real_wd[i] + real_pen >= desire_sp) and (age[i] >= curr_age)
Eligible(p, wd, a) == (wd + RealPen(p, a) >= p.desire_sp) /\ (a >= p.curr_age)

\* Mutant of Trigger: every eligible row fires the trigger again.
TriggerAlways(l, yes) == yes

\* "if not retired:" under the eligibility test: the trigger fires.
Trigger(l, yes) == yes /\ ~l.retired

\* Mutant of ZeroTail: arr[i+2:] = 0, the year after the trigger is kept.
ZeroTailLate(arr, i) == [j \in DOMAIN arr |-> IF j >= i + 2 THEN 0 ELSE arr[j]]

\* arr[i+1:] = 0
ZeroTail(arr, i) == [j \in DOMAIN arr |-> IF j >= i + 1 THEN 0 ELSE arr[j]]

\* One pass of "for i in range(len(years))" over the locals l.
LoopBody(p, l, i) ==
    LET pv   == PortfAt(p, l, i)
        rp   == DivRate(pv, Pow(RateScale + p.infl, l.years[i] - p.today_year))
        wd   == MulRate(MulRate(rp, p.swr), RateScale - p.tax)
        yes  == Eligible(p, wd, l.age[i])
        trig == Trigger(l, yes)
    IN  [ l EXCEPT !.portf      = [@ EXCEPT ![i] = pv],
                   !.real_portf = [@ EXCEPT ![i] = rp],
                   !.real_wd    = [@ EXCEPT ![i] = wd],
                   !.can_retire = [@ EXCEPT ![i] = IF yes THEN "YES" ELSE @],
                   !.retired    = IF trig THEN TRUE ELSE @,
                   !.first_yes  = IF trig THEN i ELSE @,
                   !.salary     = IF trig THEN ZeroTail(@, i) ELSE @,
                   !.savings    = IF trig THEN ZeroTail(@, i) ELSE @ ]

\* "for i in range(a, b)" over the locals l, run as the passes below the
\* middle of the range and then the passes from it.
RECURSIVE RunLoop(_, _, _, _)
RunLoop(p, l, a, b) ==
    IF a >= b THEN l
    ELSE IF b = a + 1 THEN LoopBody(p, l, a)
    ELSE LET m   == (a + b) \div 2
             mid == RunLoop(p, l, a, m)
         IN  IF m >= len(mid.years) THEN mid ELSE RunLoop(p, mid, m, b)

\* project(save_rate_, sal_growth_, pre_ret_): the locals at the return.
project(p, save_rate_, sal_growth_, pre_ret_) ==
    LET l == ProjectStart(p, save_rate_, sal_growth_, pre_ret_)
    IN  RunLoop(p, l, 0, len(l.years))

\* ------------------------------------------------------------- goal-seek

\* Mutant of interp: a step lookup of the last point strictly left of x.
interpStep(x, xp, fp) ==
    LET left == {k \in DOMAIN xp : xp[k] < x}
    IN  IF left = {} THEN fp[0]
        ELSE fp[CHOOSE k \in left : \A m \in left : m <= k]

\* np.interp(x, xp, fp) for increasing xp: fp[0] left of xp, fp[-1] right of
\* it, and the line through the two neighbouring points in between.
interp(x, xp, fp) ==
    LET n == len(xp)
    IN  IF x < xp[0] THEN fp[0]
        ELSE IF x > xp[n - 1] THEN fp[n - 1]
        ELSE LET j == CHOOSE k \in DOMAIN xp :
                          xp[k] <= x /\ (k = n - 1 \/ x < xp[k + 1])
             IN  IF j = n - 1 \/ xp[j] = x THEN fp[j]
                 ELSE fp[j] + ((fp[j + 1] - fp[j]) * (x - xp[j])) \div (xp[j + 1] - xp[j])

\* The trial projection of gap_to_target(var).
Trial(p, var) ==
    IF p.goal_var = "Savings rate" THEN project(p, var, p.sal_growth, p.pre_ret)
    ELSE IF p.goal_var = "Salary growth" THEN project(p, p.save_rate, var, p.pre_ret)
    ELSE project(p, p.save_rate, p.sal_growth, var)

gap_to_target(p, var) ==
    LET df2 == Trial(p, var)
    IN  interp(p.age_target, df2.age, df2.real_portf) - p.nest_target

\* bounds[goal_var], in basis points
Bounds(goal_var) ==
    IF goal_var = "Savings rate" THEN <<0, 10000>>
    ELSE IF goal_var = "Salary growth" THEN <<0, 5000>>
    ELSE <<0, 3000>>

Sgn(x) == IF x > 0 THEN 1 ELSE IF x < 0 THEN -1 ELSE 0

Abs(x) == IF x < 0 THEN -x ELSE x

\* The bracket [a, b] of brentq with the residuals at its two ends.
BracketOf(a, fa, b, fb) == [a |-> a, fa |-> fa, b |-> b, fb |-> fb]

NoBracket == BracketOf(0, 0, 0, 0)

\* brentq(gap_to_target, low, high), up to its iteration: ValueError when
\* f(low) and f(high) have the same sign, the starting bracket otherwise (an
\* end that is a root is the whole bracket).
brentq(p, low, high) ==
    LET fa == gap_to_target(p, low)
        fb == gap_to_target(p, high)
    IN  IF Sgn(fa) * Sgn(fb) > 0 THEN [ValueError |-> TRUE, bracket |-> NoBracket]
        ELSE IF fa = 0 THEN [ValueError |-> FALSE, bracket |-> BracketOf(low, 0, low, 0)]
        ELSE IF fb = 0 THEN [ValueError |-> FALSE, bracket |-> BracketOf(high, 0, high, 0)]
        ELSE [ValueError |-> FALSE, bracket |-> BracketOf(low, fa, high, fb)]

\* brentq has converged: the bracket is one grid step of basis points wide,
\* or an end of it is a root.
Converged(s) == s.b - s.a <= 1

\* One iteration of brentq on the grid of basis points: the bracket is
\* halved and keeps the sign change.
Bracket(p, s) ==
    LET m  == (s.a + s.b) \div 2
        fm == gap_to_target(p, m)
    IN  IF fm = 0 THEN BracketOf(m, 0, m, 0)
        ELSE IF Sgn(fm) = Sgn(s.fa) THEN BracketOf(m, fm, s.b, s.fb)
        ELSE BracketOf(s.a, s.fa, m, fm)

\* The root brentq returns: the end of the bracket with the smaller residual.
Root(s) == IF Abs(s.fa) <= Abs(s.fb) THEN s.a ELSE s.b

\* ---------------------------------------------------------- the script

VARIABLES
    P,          \* the widgets' values of this script run
    pc,         \* where the script run is
    i,          \* project(): the loop index
    loc,        \* project(): its locals while it runs
    df,         \* the table project() returned
    first_yes,  \* the index project() returned
    banner,     \* the banner shown
    outcome,    \* the goal-seek's message: "", "success" or "error"
    sol,        \* the goal-seek's solution, None without one
    br,         \* brentq(): its bracket while it runs
    edits       \* widget edits so far

vars == <<P, pc, i, loc, df, first_yes, banner, outcome, sol, br, edits>>

NoLocals == [years |-> <<>>]

NoTable == [Year |-> <<>>]

Init ==
    /\ P = Defaults
    /\ pc = "project"
    /\ i = 0
    /\ loc = NoLocals
    /\ df = NoTable
    /\ first_yes = None
    /\ banner = ""
    /\ outcome = ""
    /\ sol = None
    /\ br = NoBracket
    /\ edits = 0

\* df, first_yes = project(): the call, up to the main loop.
ProjectCall ==
    /\ pc = "project"
    /\ loc' = ProjectStart(P, P.save_rate, P.sal_growth, P.pre_ret)
    /\ i' = 0
    /\ pc' = "loop"
    /\ UNCHANGED <<P, df, first_yes, banner, outcome, sol, br, edits>>

\* One pass of the main loop.
ProjectLoop ==
    /\ pc = "loop"
    /\ i < len(loc.years)
    /\ loc' = LoopBody(P, loc, i)
    /\ i' = i + 1
    /\ UNCHANGED <<P, pc, df, first_yes, banner, outcome, sol, br, edits>>

\* pd.DataFrame({...}) of the locals
DataFrame(l) ==
    [ Year           |-> l.years,
      Age            |-> l.age,
      Salary         |-> l.salary,
      Savings        |-> l.savings,
      Portfolio      |-> l.portf,
      RealPortfolio  |-> l.real_portf,
      RealWithdrawal |-> l.real_wd,
      CanRetire      |-> l.can_retire ]

\* return df, first_yes
ProjectReturn ==
    /\ pc = "loop"
    /\ i >= len(loc.years)
    /\ df' = DataFrame(loc)
    /\ first_yes' = loc.first_yes
    /\ loc' = NoLocals
    /\ i' = 0
    /\ pc' = "banner"
    /\ UNCHANGED <<P, banner, outcome, sol, br, edits>>

\* The banner: st.success(...) or st.warning(...).
Banner ==
    /\ pc = "banner"
    /\ banner' = IF first_yes # None THEN "success" ELSE "warning"
    /\ pc' = "button"
    /\ UNCHANGED <<P, i, loc, df, first_yes, outcome, sol, br, edits>>

\* Mutant of Message: the ValueError is not caught.
MessageUncaught(r) == IF r.ValueError THEN "crash" ELSE "success"

\* try: sol = brentq(...); st.sidebar.success(...)
\* except ValueError: st.sidebar.error(...)
Message(r) == IF r.ValueError THEN "error" ELSE "success"

\* if st.sidebar.button("Run Goal-Seek"): the button was clicked and brentq
\* is called; its ValueError ends the goal-seek with the error message.
RunGoalSeek ==
    /\ pc = "button"
    /\ LET b == Bounds(P.goal_var)
           r == brentq(P, b[1], b[2])
       IN  IF r.ValueError
           THEN /\ outcome' = Message(r)
                /\ pc' = "idle"
                /\ br' = NoBracket
           ELSE /\ outcome' = outcome
                /\ pc' = "brentq"
                /\ br' = r.bracket
    /\ UNCHANGED <<P, i, loc, df, first_yes, banner, sol, edits>>

\* One iteration of brentq.
BrentqStep ==
    /\ pc = "brentq"
    /\ ~Converged(br)
    /\ br' = Bracket(P, br)
    /\ UNCHANGED <<P, pc, i, loc, df, first_yes, banner, outcome, sol, edits>>

\* sol = brentq(...) returns and the success message is shown.
BrentqReturn ==
    /\ pc = "brentq"
    /\ Converged(br)
    /\ sol' = Root(br)
    /\ outcome' = Message([ValueError |-> FALSE])
    /\ br' = NoBracket
    /\ pc' = "idle"
    /\ UNCHANGED <<P, i, loc, df, first_yes, banner, edits>>

\* The button was not clicked.
NoGoalSeek ==
    /\ pc = "button"
    /\ pc' = "idle"
    /\ UNCHANGED <<P, i, loc, df, first_yes, banner, outcome, sol, br, edits>>

\* The user changes one widget: the script runs again from the top.
Edit ==
    /\ pc = "idle"
    /\ edits < MaxEdits
    /\ \E w \in DOMAIN Choices : \E v \in Choices[w] :
          /\ v # P[w]
          /\ ValidInputs([P EXCEPT ![w] = v])
          /\ P' = [P EXCEPT ![w] = v]
    /\ edits' = edits + 1
    /\ pc' = "project"
    /\ i' = 0
    /\ loc' = NoLocals
    /\ df' = NoTable
    /\ first_yes' = None
    /\ banner' = ""
    /\ outcome' = ""
    /\ sol' = None
    /\ br' = NoBracket

Next ==
    \/ ProjectCall
    \/ ProjectLoop
    \/ ProjectReturn
    \/ Banner
    \/ RunGoalSeek
    \/ BrentqStep
    \/ BrentqReturn
    \/ NoGoalSeek
    \/ Edit

Spec == Init /\ [][Next]_vars

\* ------------------------------------------------------------ properties

\* project() has returned its table in this script run.
Returned == pc \in {"banner", "button", "brentq", "idle"}

LastRow == Horizon - 1

\* The pension of row j of the returned table.
PenOf(j) == RealPen(P, df.Age[j])

\* Row j meets the desired spending.
Affords(j) == df.RealWithdrawal[j] + PenOf(j) >= P.desire_sp

YesRows == {j \in DOMAIN df.CanRetire : df.CanRetire[j] = "YES"}

\* C1: the retirement trigger is gated by the target age: no row younger
\* than target_retirement_age is marked can_retire, and first_yes, when set,
\* is the first row that affords the desired spending at or after that age.
C1_TargetAgeGated ==
    Returned =>
        /\ \A j \in YesRows : df.Age[j] >= P.age_target
        /\ first_yes # None =>
              /\ Affords(first_yes) /\ df.Age[first_yes] >= P.age_target
              /\ \A j \in 0 .. (first_yes - 1) :
                    ~(Affords(j) /\ df.Age[j] >= P.age_target)

\* C2 (in the returned table): after a row marked can_retire, salary and
\* savings contribution are 0 in every later row.
Irreversible(t) ==
    \A k \in DOMAIN t.can_retire :
        t.can_retire[k] = "YES" =>
            \A j \in (k + 1) .. LastRow : t.salary[j] = 0 /\ t.savings[j] = 0

\* The values of the varied parameter the properties try: the two ends of
\* its bound, which every goal-seek evaluates.
TrialPoints(goal_var) ==
    LET b == Bounds(goal_var) IN {b[1], b[2]}

\* C2: irreversibility. In the table project() returns, and in the table of
\* every trial projection of the goal-seek, each row marked can_retire is
\* followed only by rows with salary 0 and savings contribution 0.
C2_Irreversibility ==
    /\ Returned =>
          \A k \in YesRows :
              \A j \in (k + 1) .. LastRow : df.Salary[j] = 0 /\ df.Savings[j] = 0
    /\ pc = "button" => \A x \in TrialPoints(P.goal_var) : Irreversible(Trial(P, x))

\* C2's case: the run retired while earning, and rows follow the trigger.
C2_Witness ==
    /\ Returned
    /\ first_yes # None /\ first_yes < LastRow
    /\ df.Salary[first_yes] > 0 /\ df.Savings[first_yes] > 0
    /\ P.sal_growth > 0

\* C6: project() returns exactly 80 rows, row j with year start_year + j and
\* age current_age + j, whether or not retirement triggers.
C6_EightyRows ==
    Returned =>
        /\ \A c \in DOMAIN df : DOMAIN df[c] = 0 .. 79
        /\ \A j \in 0 .. 79 :
              /\ df.Year[j] = P.today_year + j
              /\ df.Age[j] = P.curr_age + j
        /\ \A j \in 1 .. 79 :
              df.Year[j] > df.Year[j - 1] /\ df.Age[j] > df.Age[j - 1]

\* C6's case: a returned table of a run that retired part-way.
C6_Witness ==
    Returned /\ first_yes # None /\ first_yes > 0

\* The first row marked can_retire among the rows below n, None without one.
FirstMarked(can_retire, n) ==
    LET yes == {j \in DOMAIN can_retire : j < n /\ can_retire[j] = "YES"}
    IN  IF yes = {} THEN None ELSE CHOOSE j \in yes : \A k \in yes : j <= k

\* C7: first_yes is the index of the first row marked can_retire and None
\* exactly when no row is; during the loop it is set once, by the first
\* eligible row, and later eligible rows leave it; with no eligible row all
\* 80 rows are still computed; the banner follows it.
C7_FirstIndex ==
    /\ pc = "loop" => loc.first_yes = FirstMarked(loc.can_retire, i)
    /\ Returned =>
          /\ first_yes = FirstMarked(df.CanRetire, Horizon)
          /\ (first_yes = None) <=> (YesRows = {})
          /\ first_yes = None =>
                /\ \A c \in DOMAIN df : DOMAIN df[c] = 0 .. LastRow
                /\ \A j \in 0 .. LastRow :
                      df.RealWithdrawal[j] =
                          MulRate(MulRate(df.RealPortfolio[j], P.swr), RateScale - P.tax)
    /\ pc \in {"button", "brentq", "idle"} => ((banner = "warning") <=> (first_yes = None))

\* C7's case: the run retired and a later row is eligible again.
C7_Witness ==
    /\ Returned
    /\ first_yes # None
    /\ \E j \in YesRows : j > first_yes

\* C7's other case: no row is eligible within the horizon.
C7_NoneReached == Returned /\ first_yes = None /\ df.Portfolio[LastRow] > 0

\* C8: portfolio[0] is the current portfolio and row j > 0 grows the previous
\* row at the pre-retirement return unless the trigger fired at a row before
\* j, and at the post-retirement return after it: the triggering row itself
\* still grows at the pre-retirement return.
C8_RegimeSwitch ==
    Returned =>
        /\ df.Portfolio[0] = P.curr_portf
        /\ \A j \in 1 .. LastRow :
              LET r == IF first_yes # None /\ first_yes < j
                       THEN P.post_ret ELSE P.pre_ret
              IN  df.Portfolio[j] =
                      Add(Add(df.Portfolio[j - 1], df.Savings[j]),
                          MulRate(df.Portfolio[j - 1], r))

\* C8's case: the trigger fired at a row k > 0 with rows after it, and the two
\* returns differ.
C8_Witness ==
    /\ Returned
    /\ first_yes # None /\ first_yes > 0 /\ first_yes < LastRow
    /\ P.pre_ret # P.post_ret
    /\ df.Portfolio[first_yes] > 0

\* C10: the nominal portfolio value never decreases from one row to the
\* next, before and after the trigger (nothing is ever withdrawn).
C10_NonDecreasing ==
    /\ Returned => \A j \in 1 .. LastRow : df.Portfolio[j] >= df.Portfolio[j - 1]
    /\ pc = "loop" => \A j \in 1 .. (i - 1) : loc.portf[j] >= loc.portf[j - 1]

\* C10's case: the portfolio grew before the trigger and after it.
C10_Witness ==
    /\ Returned
    /\ first_yes # None /\ first_yes > 0 /\ first_yes < LastRow
    /\ df.Portfolio[first_yes] > df.Portfolio[0]
    /\ df.Portfolio[LastRow] > df.Portfolio[first_yes]

\* The sliders' upper ends, in basis points.
SliderMax(v) ==
    IF v = "Savings rate" THEN 10000 ELSE 3000

\* The widget value the goal-seek variable v replaces.
BaseValue(p, v) ==
    IF v = "Savings rate" THEN p.save_rate
    ELSE IF v = "Salary growth" THEN p.sal_growth
    ELSE p.pre_ret

\* A second run: the inputs of this run with the rate v raised to x.
RaisedRun(v, x) == Trial([P EXCEPT !.goal_var = v], x)

\* The raised values of rate v the property compares with: half a point up,
\* and the slider's upper end.
Raised(v) == {x \in {BaseValue(P, v) + 50, SliderMax(v)} : x > BaseValue(P, v)}

GoalVars == {"Savings rate", "Salary growth", "Pre-ret return"}

\* C3 as stated: raising one of the three rates never lowers the real
\* portfolio value at any row, rows after either run's trigger included.
C3_MonotoneEverywhere ==
    pc = "button" =>
        \A v \in GoalVars : \A x \in Raised(v) :
            LET hi == RaisedRun(v, x)
            IN  \A j \in 0 .. LastRow : hi.real_portf[j] >= df.RealPortfolio[j]

\* C3 as amended: raising one of the three rates never lowers the real
\* portfolio value at any row up to and including the row at which the run
\* with the raised rate triggers retirement (every row when it never does);
\* and that run triggers no later than the other.
C3_MonotoneUntilTrigger ==
    pc = "button" =>
        \A v \in GoalVars : \A x \in Raised(v) :
            LET hi == RaisedRun(v, x)
                k2 == IF hi.first_yes = None THEN LastRow ELSE hi.first_yes
            IN  /\ \A j \in 0 .. k2 : hi.real_portf[j] >= df.RealPortfolio[j]
                /\ first_yes # None => (hi.first_yes # None /\ hi.first_yes <= first_yes)

\* C3's case: a raised savings rate gives a strictly larger real portfolio
\* at the row where the raised run retires, and that is before the other run
\* retires.
C3_Witness ==
    /\ pc = "button"
    /\ first_yes # None
    /\ \E x \in Raised("Savings rate") :
          LET hi == RaisedRun("Savings rate", x)
          IN  /\ hi.first_yes # None /\ hi.first_yes > 0 /\ hi.first_yes < first_yes
              /\ hi.real_portf[hi.first_yes] > df.RealPortfolio[hi.first_yes]

\* The residual a solution may leave, in currency units: more than one grid
\* step of the varied rate moves the balance at the target age where the
\* gap is continuous in that rate.
GapTol == 1000

\* C4: round trip. A solution the goal-seek reports, set as the chosen
\* variable, gives a real portfolio value at the target age within the
\* solver's tolerance of the nest-egg target.
C4_RoundTrip ==
    (pc = "idle" /\ outcome = "success") => Abs(gap_to_target(P, sol)) <= GapTol

\* gap(low) and gap(high) are both strictly positive or both strictly
\* negative.
SameStrictSign(p) ==
    LET b == Bounds(p.goal_var)
    IN  Sgn(gap_to_target(p, b[1])) * Sgn(gap_to_target(p, b[2])) = 1

\* The unreachable scenario: nest-egg target 1e9 at the age after the
\* current one, solving for the savings rate, all else the defaults.
UnreachableScenario ==
    [Defaults EXCEPT !.nest_target = 1000000000,
                     !.age_target = Defaults.curr_age + 1,
                     !.goal_var = "Savings rate"]

\* C5: when gap(low) and gap(high) have the same strict sign, a goal-seek
\* that was run ended in the "target unreachable" message, with no solution
\* and no other outcome; so it did in the unreachable scenario.
C5_Unreachable ==
    (pc = "idle" /\ outcome # "") =>
        /\ outcome \in {"success", "error"}
        /\ SameStrictSign(P) => (outcome = "error" /\ sol = None)
        /\ P = UnreachableScenario => (outcome = "error" /\ sol = None)

\* C5's case: the goal-seek was run in the unreachable scenario.
C5_Witness == pc = "idle" /\ outcome = "error" /\ P = UnreachableScenario

\* The target age is an age of the table.
InRange(p) == p.curr_age <= p.age_target /\ p.age_target <= p.curr_age + 79

\* C9: for a target age within the table's ages the gap is the real
\* portfolio value of row target_retirement_age - current_age of the trial
\* projection, less the nest-egg target; and the trial projection differs
\* from the base one in the chosen variable only: at the variable's own
\* value it is the table project() returned.
C9_GapIsRow ==
    (pc = "button" /\ InRange(P)) =>
        /\ \A x \in TrialPoints(P.goal_var) :
              gap_to_target(P, x) =
                  Trial(P, x).real_portf[P.age_target - P.curr_age] - P.nest_target
        /\ DataFrame(Trial(P, BaseValue(P, P.goal_var))) = df

\* C9's case: a goal-seek succeeded for a target age within the table, in a
\* run whose real portfolio value differs from row to row around it.
C9_Witness ==
    /\ pc = "idle" /\ outcome = "success" /\ InRange(P)
    /\ P.age_target - P.curr_age < LastRow
    /\ df.RealPortfolio[P.age_target - P.curr_age] # df.RealPortfolio[P.age_target - P.curr_age - 1]
    /\ df.RealPortfolio[P.age_target - P.curr_age] # df.RealPortfolio[P.age_target - P.curr_age + 1]

====
